---- MODULE Spec2Model ----
(***************************************************************************)
(* A model of tweepy's Client (src/tweepy/client.py): construction, the    *)
(* generic request pipeline and the statuses endpoint methods.             *)
(*                                                                         *)
(* Text is modelled as a sequence of tokens.  The characters of a path     *)
(* that matter to urljoin ("/" and ".") are tokens of their own; a host,   *)
(* an API version, a subdomain, a format or a path word is one token with  *)
(* no URL-special character in it.  Python values that may be None are     *)
(* tagged records ([t |-> "None"], [t |-> "str", s |-> ...], ...).         *)
(***************************************************************************)
EXTENDS Integers, Sequences, FiniteSets, TLC

\* Longest relative path, in tokens, handed directly to request().
MaxPathLen == 3
\* Largest status id handed to the endpoint methods.
MaxStatusId == 2

----------------------------------------------------------------------------
(* Python values *)

PyNone == [t |-> "None"]
PyStr(s) == [t |-> "str", s |-> s]
PyDict(d) == [t |-> "dict", d |-> d]
PyTuple(a, b) == [t |-> "tuple", items |-> <<a, b>>]
PyFile(name, content) == [t |-> "file", name |-> name, mode |-> "rb", content |-> content]

EmptyDict == [k \in {} |-> PyNone]

\* dict.update(other): the keys of other override.
update(d, other) ==
  [k \in DOMAIN d \cup DOMAIN other |-> IF k \in DOMAIN other THEN other[k] ELSE d[k]]

\* str(n) for a non-negative integer, as the '%s' conversion writes it.
Digit == <<"0", "1", "2", "3", "4", "5", "6", "7", "8", "9">>
RECURSIVE str(_)
str(n) == IF n < 10 THEN <<Digit[n + 1]>> ELSE str(n \div 10) \o <<Digit[(n % 10) + 1]>>

----------------------------------------------------------------------------
(* urlparse.urljoin, on token sequences *)

\* s.find(c, i): the least index >= i holding c, 0 when there is none.
RECURSIVE find(_, _, _)
find(s, c, i) ==
  IF i > Len(s) THEN 0 ELSE IF s[i] = c THEN i ELSE find(s, c, i + 1)

\* s.split(sep)
RECURSIVE split(_, _)
split(s, sep) ==
  LET k == find(s, sep, 1)
  IN IF k = 0 THEN <<s>>
     ELSE <<SubSeq(s, 1, k - 1)>> \o split(SubSeq(s, k + 1, Len(s)), sep)

\* sep.join(segments)
RECURSIVE join(_, _)
join(segments, sep) ==
  IF Len(segments) = 0 THEN <<>>
  ELSE IF Len(segments) = 1 THEN segments[1]
  ELSE segments[1] \o <<sep>> \o join(Tail(segments), sep)

Dot == <<".">>
DotDot == <<".", ".">>

\* while '.' in segments: segments.remove('.')
RECURSIVE removeDots(_)
removeDots(segments) ==
  IF Len(segments) = 0 THEN <<>>
  ELSE IF Head(segments) = Dot THEN removeDots(Tail(segments))
  ELSE <<Head(segments)>> \o removeDots(Tail(segments))

\* The loop that deletes the first 'x/..' pair until there is none.
RECURSIVE collapse(_)
collapse(segments) ==
  LET hits == {j \in 2..(Len(segments) - 1) :
                 /\ segments[j] = DotDot
                 /\ segments[j - 1] # <<>>
                 /\ segments[j - 1] # DotDot}
  IN IF hits = {} THEN segments
     ELSE LET j == CHOOSE x \in hits : \A y \in hits : x <= y
          IN collapse(SubSeq(segments, 1, j - 2) \o SubSeq(segments, j + 1, Len(segments)))

\* urlparse(base): the absolute base URL <<scheme, "://", netloc..., "/", path...>>.
baseScheme(base) == base[1]
baseNetloc(base) ==
  LET k == find(base, "/", 3)
  IN IF k = 0 THEN SubSeq(base, 3, Len(base)) ELSE SubSeq(base, 3, k - 1)
basePath(base) ==
  LET k == find(base, "/", 3)
  IN IF k = 0 THEN <<>> ELSE SubSeq(base, k, Len(base))

\* urlparse(url) of a reference with no ':', '?', '#' or ';' in it: a leading
\* '//' starts a network location that runs to the next '/'.
refNetloc(url) ==
  IF Len(url) >= 2 /\ url[1] = "/" /\ url[2] = "/"
  THEN LET k == find(url, "/", 3)
       IN IF k = 0 THEN SubSeq(url, 3, Len(url)) ELSE SubSeq(url, 3, k - 1)
  ELSE <<>>
refPath(url) ==
  IF Len(url) >= 2 /\ url[1] = "/" /\ url[2] = "/"
  THEN LET k == find(url, "/", 3)
       IN IF k = 0 THEN <<>> ELSE SubSeq(url, k, Len(url))
  ELSE url

\* urlunparse((scheme, netloc, path, '', '', '')).  '//' + netloc is put before
\* the path when there is a netloc or the path does not start with '//' itself;
\* a path that starts with '//' and has no netloc follows 'scheme:' as it is.
urlunparse(scheme, netloc, path) ==
  IF Len(netloc) = 0 /\ Len(path) >= 2 /\ path[1] = "/" /\ path[2] = "/"
  THEN <<scheme, "://">> \o SubSeq(path, 3, Len(path))
  ELSE <<scheme, "://">> \o netloc
         \o (IF Len(path) > 0 /\ path[1] # "/" THEN <<"/">> \o path ELSE path)

\* if segments[-1] == '.': segments[-1] = ''
lastDot(segments) ==
  IF segments[Len(segments)] = Dot
  THEN [segments EXCEPT ![Len(segments)] = <<>>]
  ELSE segments

\* The closing rule for a '..' left at the end.
lastDotDot(segments) ==
  IF segments = <<<<>>, DotDot>> THEN <<<<>>, <<>>>>
  ELSE IF Len(segments) >= 2 /\ segments[Len(segments)] = DotDot
  THEN SubSeq(segments, 1, Len(segments) - 2) \o <<<<>>>>
  ELSE segments

\* bpath.split('/')[:-1] + path.split('/')
mergedSegments(bsegs, segs) == SubSeq(bsegs, 1, Len(bsegs) - 1) \o segs

\* urljoin once both URLs are parsed.
joinParsed(scheme, bnetloc, bpath, netloc, path) ==
  IF Len(netloc) > 0 THEN urlunparse(scheme, netloc, path)
  ELSE IF Len(path) > 0 /\ path[1] = "/" THEN urlunparse(scheme, bnetloc, path)
  ELSE IF Len(path) = 0 THEN urlunparse(scheme, bnetloc, bpath)
  ELSE urlunparse(scheme, bnetloc,
         join(lastDotDot(collapse(removeDots(lastDot(
                mergedSegments(split(bpath, "/"), split(path, "/")))))), "/"))

urljoin(base, url) ==
  IF Len(base) = 0 THEN url
  ELSE IF Len(url) = 0 THEN base
  ELSE joinParsed(baseScheme(base), baseNetloc(base), basePath(base),
                  refNetloc(url), refPath(url))

----------------------------------------------------------------------------
(* The Parser interface (tweepy.parsers), as the Client uses it *)

\* A parser is known by the response formats it declares and by its truth
\* value as an object (false for one whose __len__ gives 0).
supports_format(parser, format) == format \in parser.formats

\* bool(parser), as `self.parser and ...` tests it.
bool(parser) == parser.truthy

ErrorBody == <<"{\"error\":\"Not found\"}">>
StatusBody == <<"{\"id\":1,\"text\":\"hello world\"}">>
MalformedBody == <<"<html>oops">>
WellFormed == {ErrorBody, StatusBody}

\* parse_content: the structured value of a well-formed body, a ParseError otherwise.
parse_content(parser, content) ==
  IF content \in WellFormed
  THEN [ok |-> TRUE, value |-> [t |-> "parsed", by |-> parser.name, of |-> content]]
  ELSE [ok |-> FALSE, error |-> "ParseError"]

\* parse_error: the server's message when there is one, a generic one otherwise;
\* it never raises.
parse_error(parser, content) ==
  IF content = ErrorBody THEN "Not found" ELSE "Unknown error"

----------------------------------------------------------------------------
(* Client.__init__ *)

NoClient == [t |-> "None"]

\* The template built without looking at `secure`.
base_url_template_https(secure, host, api_version) ==
  <<"https", "://", "%s", ".", host, "/", api_version, "/">>

\* '%s://%%s.%s/%s/' % ('https' if secure else 'http', host, api_version)
base_url_template(secure, host, api_version) ==
  <<IF secure THEN "https" ELSE "http", "://", "%s", ".", host, "/", api_version, "/">>

\* template % subdomain: the one '%s' left in the template takes the subdomain.
format(template, subdomain) ==
  [i \in 1..Len(template) |-> IF template[i] = "%s" THEN subdomain ELSE template[i]]

\* The constructor without its check of the response format.
Client_init_unchecked(auth, host, secure, api_version, parser, response_format) ==
  [raised |-> FALSE,
   self |-> [t |-> "Client",
             base_url |-> base_url_template(secure, host, api_version),
             auth |-> auth,
             parser |-> parser,
             response_format |-> response_format]]

\* The constructor: the client object, or the TweepyError it raises.
Client_init(auth, host, secure, api_version, parser, response_format) ==
  IF supports_format(parser, response_format) = FALSE
  THEN [raised |-> TRUE,
        type |-> "TweepyError",
        msg |-> <<"Parse does not support response format: ", response_format>>]
  ELSE [raised |-> FALSE,
        self |-> [t |-> "Client",
                  base_url |-> base_url_template(secure, host, api_version),
                  auth |-> auth,
                  parser |-> parser,
                  response_format |-> response_format]]

----------------------------------------------------------------------------
(* Client.request *)

\* What a call leaves behind: the client, the request() calls made, the requests
\* sent through the session, the parser operations invoked, and how it ended.
Returned(self, reqs, sends, parsed, value) ==
  [self |-> self, reqs |-> reqs, sends |-> sends, parsed |-> parsed,
   outcome |-> [kind |-> "return", value |-> value]]
Raised(self, reqs, sends, parsed, type, msg) ==
  [self |-> self, reqs |-> reqs, sends |-> sends, parsed |-> parsed,
   outcome |-> [kind |-> "raise", type |-> type, msg |-> msg]]

\* dict(parameters) of a mapping: a copy.
dict(parameters) == parameters.d

\* return self.parser.parse_content(r.content), or the parser's error.
finish_parse(self, me, sends, parsed) ==
  IF parsed.ok
  THEN Returned(self, me, sends, <<"parse_content">>, parsed.value)
  ELSE Raised(self, me, sends, <<"parse_content">>, parsed.error, <<"malformed body">>)

\* The response handling with 404 taken for a success.
interpret_404_ok(self, me, sends, r) ==
  IF r.status_code # 200 /\ r.status_code # 404
  THEN Raised(self, me, sends, <<"parse_error">>, "TweepyError",
              <<"API error: ", parse_error(self.parser, r.content)>>)
  ELSE IF bool(self.parser) /\ Len(r.content) > 0
  THEN finish_parse(self, me, sends, parse_content(self.parser, r.content))
  ELSE Returned(self, me, sends, <<>>, [t |-> "bytes", of |-> r.content])

\* The response handling that never parses a successful body.
interpret_raw(self, me, sends, r) ==
  IF r.status_code # 200
  THEN Raised(self, me, sends, <<"parse_error">>, "TweepyError",
              <<"API error: ", parse_error(self.parser, r.content)>>)
  ELSE Returned(self, me, sends, <<>>, [t |-> "bytes", of |-> r.content])

\* Lines 58-65: what request() makes of the response it got.
interpret(self, me, sends, r) ==
  IF r.status_code # 200
  THEN Raised(self, me, sends, <<"parse_error">>, "TweepyError",
              <<"API error: ", parse_error(self.parser, r.content)>>)
  ELSE IF bool(self.parser) /\ Len(r.content) > 0
  THEN finish_parse(self, me, sends, parse_content(self.parser, r.content))
  ELSE Returned(self, me, sends, <<>>, [t |-> "bytes", of |-> r.content])

\* The dispatch without its try/except: the RequestException propagates.
dispatch_unwrapped(self, me, parameters, sent, net) ==
  IF parameters.t = "None"
  THEN Raised(self, me, <<>>, <<>>, "TypeError", <<"'NoneType' object is not iterable">>)
  ELSE IF net.kind = "RequestException"
  THEN Raised(self, me, <<sent>>, <<>>, "RequestException", <<net.cause>>)
  ELSE interpret(self, me, <<sent>>, net)

\* The dispatch that sends a second time after a RequestException.
dispatch_retry(self, me, parameters, sent, net) ==
  IF parameters.t = "None"
  THEN Raised(self, me, <<>>, <<>>, "TypeError", <<"'NoneType' object is not iterable">>)
  ELSE IF net.kind = "RequestException"
  THEN Raised(self, me, <<sent, sent>>, <<>>, "TweepyError", <<"Request error: ", net.cause>>)
  ELSE interpret(self, me, <<sent>>, net)

\* Lines 53-56: the session sends the request; a RequestException is rewrapped.
dispatch(self, me, parameters, sent, net) ==
  IF parameters.t = "None"
  THEN \* dict(None) raises before the session is called; nothing catches it
       Raised(self, me, <<>>, <<>>, "TypeError", <<"'NoneType' object is not iterable">>)
  ELSE IF net.kind = "RequestException"
  THEN Raised(self, me, <<sent>>, <<>>, "TweepyError", <<"Request error: ", net.cause>>)
  ELSE interpret(self, me, <<sent>>, net)

\* request(method, url, parameters, files, subdomain) against a transport that
\* answers `net`: a RequestException or a response (status_code, content).
request(self, method, url, parameters, files, subdomain, net) ==
  dispatch(self,
           <<[method |-> method, url |-> url, parameters |-> parameters,
              files |-> files, subdomain |-> subdomain]>>,
           parameters,
           [method |-> method,
            url |-> urljoin(format(self.base_url, subdomain), url)
                      \o <<".", self.response_format>>,
            params |-> IF parameters.t = "None" THEN PyNone ELSE dict(parameters),
            files |-> files],
           net)

----------------------------------------------------------------------------
(* The endpoint methods.  `parameters` is the **parameters mapping. *)

\* A call that ends before request() is reached.
Uncaught(self, type, msg) == Raised(self, <<>>, <<>>, <<>>, type, msg)

home_timeline(self, parameters, net) ==
  \* `paramters` is no name in scope: evaluating the argument raises NameError
  Uncaught(self, "NameError", <<"global name 'paramters' is not defined">>)

mentions(self, parameters, net) ==
  request(self, "GET", <<"statuses", "/", "mentions">>, PyDict(parameters), PyNone, "api", net)

public_timeline(self, parameters, net) ==
  request(self, "GET", <<"statuses", "/", "public_timeline">>, PyDict(parameters), PyNone, "api", net)

retweeted_by_me(self, parameters, net) ==
  request(self, "GET", <<"statuses", "/", "retweeted_by_me">>, PyDict(parameters), PyNone, "api", net)

retweeted_to_me(self, parameters, net) ==
  request(self, "GET", <<"statuses", "/", "retweeted_to_me">>, PyDict(parameters), PyNone, "api", net)

retweets_of_me(self, parameters, net) ==
  request(self, "GET", <<"statuses", "/", "retweets_of_me">>, PyDict(parameters), PyNone, "api", net)

user_timeline(self, screen_name, user_id, parameters, net) ==
  LET p == update(parameters, [screen_name |-> screen_name, user_id |-> user_id])
  IN request(self, "GET", <<"statuses", "/", "user_timeline">>, PyDict(p), PyNone, "api", net)

retweeted_to_user(self, id, screen_name, parameters, net) ==
  LET p == update(parameters, [id |-> id, screen_name |-> screen_name])
  IN request(self, "GET", <<"statuses", "/", "retweeted_to_user">>, PyDict(p), PyNone, "api", net)

retweeted_by_user(self, id, screen_name, parameters, net) ==
  LET p == update(parameters, [id |-> id, screen_name |-> screen_name])
  IN request(self, "GET", <<"statuses", "/", "retweeted_by_user">>, PyDict(p), PyNone, "api", net)

\* retweeted_by with only_ids ignored.
retweeted_by_users_only(self, status_id, only_ids, parameters, net) ==
  request(self, "GET", <<"statuses", "/">> \o str(status_id) \o <<"/", "retweeted_by">>,
          PyDict(parameters), PyNone, "api", net)

retweeted_by(self, status_id, only_ids, parameters, net) ==
  LET url == IF only_ids
             THEN <<"statuses", "/">> \o str(status_id) \o <<"/", "retweeted_by", "/", "ids">>
             ELSE <<"statuses", "/">> \o str(status_id) \o <<"/", "retweeted_by">>
  IN request(self, "GET", url, PyDict(parameters), PyNone, "api", net)

retweets(self, status_id, parameters, net) ==
  LET url == <<"statuses", "/", "retweets", "/">> \o str(status_id)
  IN request(self, "GET", url, PyDict(parameters), PyNone, "api", net)

show_status(self, status_id, parameters, net) ==
  LET url == <<"statuses", "/", "show", "/">> \o str(status_id)
  IN request(self, "GET", url, PyDict(parameters), PyNone, "api", net)

destroy_status(self, status_id, parameters, net) ==
  LET url == <<"statuses", "/", "destroy", "/">> \o str(status_id)
  IN request(self, "POST", url, PyDict(parameters), PyNone, "api", net)

retweet(self, status_id, parameters, net) ==
  LET url == <<"statuses", "/", "retweet", "/">> \o str(status_id)
  IN request(self, "POST", url, PyDict(parameters), PyNone, "api", net)

\* The files open(path, 'rb') finds; any other path raises IOError.
FileSystem == [p \in {"cat.jpg"} |-> <<"JPEG-bytes">>]

update_status(self, status, media, parameters, net) ==
  LET p == update(parameters, [status |-> PyStr(status)])
  IN IF media.t = "str" /\ media.s \notin DOMAIN FileSystem
     THEN Uncaught(self, "IOError", <<"No such file or directory: ", media.s>>)
     ELSE
       LET m == IF media.t = "str"
                THEN PyTuple(media, PyFile(media.s, FileSystem[media.s]))
                ELSE media
       IN IF m.t = "tuple"
          THEN request(self, "POST", <<"statuses", "/", "update_with_media">>, PyDict(p),
                       PyDict([k \in {"media[]"} |-> m]), "upload", net)
          ELSE request(self, "POST", <<"statuses", "/", "update">>, PyDict(p), PyNone, "api", net)

----------------------------------------------------------------------------
(* The inputs the model draws from *)

Hosts == {"twitter.com", "localhost"}
Versions == {"1", "2"}
Formats == {"json", "xml"}
Parsers == {[name |-> "JSONParser", formats |-> {"json"}, truthy |-> TRUE],
            [name |-> "XMLParser", formats |-> {"xml"}, truthy |-> TRUE],
            [name |-> "AnyParser", formats |-> {"json", "xml"}, truthy |-> TRUE],
            [name |-> "SizedParser", formats |-> {"json"}, truthy |-> FALSE]}
Subdomains == {"api", "upload"}
Methods == {"GET", "POST"}
StatusCodes == {200, 400, 401, 404, 500}
Bodies == {<<>>, ErrorBody, StatusBody, MalformedBody}
Causes == {"Connection refused", "Read timed out"}

\* What the transport does with one request.
Net ==
  {[kind |-> "RequestException", cause |-> c] : c \in Causes}
    \cup {[kind |-> "response", status_code |-> sc, content |-> b] :
            sc \in StatusCodes, b \in Bodies}

PathChars == {"a", "/", "."}
RECURSIVE SeqsUpTo(_)
SeqsUpTo(n) ==
  IF n = 0 THEN {<<>>}
  ELSE LET shorter == SeqsUpTo(n - 1)
       IN shorter \cup {Append(q, c) : q \in {x \in shorter : Len(x) = n - 1}, c \in PathChars}
Paths == SeqsUpTo(MaxPathLen)

ExtraParameters == {EmptyDict, [count |-> PyStr("5")]}
\* request()'s own `parameters`: left at its default None, or a mapping.
RequestParameters == {PyNone} \cup {PyDict(d) : d \in ExtraParameters}
ScreenNames == {PyNone, PyStr("bob")}
UserIds == {PyNone, PyStr("7")}
StatusIds == 1..MaxStatusId
StatusTexts == {"hello world"}
Media == {PyNone,
          PyStr("cat.jpg"),
          PyStr("gone.jpg"),
          PyTuple(PyStr("dog.png"), PyFile("dog.png", <<"PNG-bytes">>)),
          [t |-> "unicode", s |-> "cat.jpg"]}

----------------------------------------------------------------------------
(* The state machine: a program that constructs a client and calls it *)

VARIABLES
  client,   \* the Client object, NoClient before a construction succeeds
  ctor,     \* the last constructor call and how it ended
  call,     \* the call whose result the caller holds
  pc        \* "idle": between calls; "done": a call has just ended

vars == <<client, ctor, call, pc>>

NoCall == [t |-> "None"]

Init ==
  /\ client = NoClient
  /\ ctor = [t |-> "None"]
  /\ call = NoCall
  /\ pc = "idle"

\* The caller holds the new client, or the error the constructor raised.
Constructed(args, r) ==
  /\ ctor' = [t |-> "ctor", args |-> args, raised |-> r.raised,
              type |-> IF r.raised THEN r.type ELSE "-"]
  /\ client' = IF r.raised THEN NoClient ELSE r.self

Construct ==
  /\ pc = "idle"
  /\ client = NoClient
  /\ \E host \in Hosts, secure \in BOOLEAN, api_version \in Versions,
        parser \in Parsers, response_format \in Formats :
       Constructed([host |-> host, secure |-> secure, api_version |-> api_version,
                    parser |-> parser, response_format |-> response_format],
                   Client_init(PyNone, host, secure, api_version, parser, response_format))
  /\ UNCHANGED <<call, pc>>

\* An operation of the client runs to its end against the transport's answer.
Do(op, args, net, r) ==
  /\ call' = [op |-> op, args |-> args, net |-> net, before |-> client,
              reqs |-> r.reqs, sends |-> r.sends, parsed |-> r.parsed,
              outcome |-> r.outcome]
  /\ client' = r.self
  /\ pc' = "done"
  /\ UNCHANGED ctor

Ready == pc = "idle" /\ client # NoClient

Request ==
  /\ Ready
  /\ \E method \in Methods, url \in Paths, parameters \in RequestParameters,
        subdomain \in Subdomains, net \in Net :
       Do("request",
          [method |-> method, url |-> url, parameters |-> parameters,
           files |-> PyNone, subdomain |-> subdomain],
          net, request(client, method, url, parameters, PyNone, subdomain, net))

HomeTimeline ==
  /\ Ready
  /\ \E parameters \in ExtraParameters, net \in Net :
       Do("home_timeline", [parameters |-> parameters], net,
          home_timeline(client, parameters, net))

Mentions ==
  /\ Ready
  /\ \E parameters \in ExtraParameters, net \in Net :
       Do("mentions", [parameters |-> parameters], net, mentions(client, parameters, net))

PublicTimeline ==
  /\ Ready
  /\ \E parameters \in ExtraParameters, net \in Net :
       Do("public_timeline", [parameters |-> parameters], net,
          public_timeline(client, parameters, net))

RetweetedByMe ==
  /\ Ready
  /\ \E parameters \in ExtraParameters, net \in Net :
       Do("retweeted_by_me", [parameters |-> parameters], net,
          retweeted_by_me(client, parameters, net))

RetweetedToMe ==
  /\ Ready
  /\ \E parameters \in ExtraParameters, net \in Net :
       Do("retweeted_to_me", [parameters |-> parameters], net,
          retweeted_to_me(client, parameters, net))

RetweetsOfMe ==
  /\ Ready
  /\ \E parameters \in ExtraParameters, net \in Net :
       Do("retweets_of_me", [parameters |-> parameters], net,
          retweets_of_me(client, parameters, net))

UserTimeline ==
  /\ Ready
  /\ \E screen_name \in ScreenNames, user_id \in UserIds,
        parameters \in ExtraParameters, net \in Net :
       Do("user_timeline",
          [screen_name |-> screen_name, user_id |-> user_id, parameters |-> parameters],
          net, user_timeline(client, screen_name, user_id, parameters, net))

RetweetedToUser ==
  /\ Ready
  /\ \E id \in UserIds, screen_name \in ScreenNames,
        parameters \in ExtraParameters, net \in Net :
       Do("retweeted_to_user",
          [id |-> id, screen_name |-> screen_name, parameters |-> parameters],
          net, retweeted_to_user(client, id, screen_name, parameters, net))

RetweetedByUser ==
  /\ Ready
  /\ \E id \in UserIds, screen_name \in ScreenNames,
        parameters \in ExtraParameters, net \in Net :
       Do("retweeted_by_user",
          [id |-> id, screen_name |-> screen_name, parameters |-> parameters],
          net, retweeted_by_user(client, id, screen_name, parameters, net))

RetweetedBy ==
  /\ Ready
  /\ \E status_id \in StatusIds, only_ids \in BOOLEAN,
        parameters \in ExtraParameters, net \in Net :
       Do("retweeted_by",
          [status_id |-> status_id, only_ids |-> only_ids, parameters |-> parameters],
          net, retweeted_by(client, status_id, only_ids, parameters, net))

Retweets ==
  /\ Ready
  /\ \E status_id \in StatusIds, parameters \in ExtraParameters, net \in Net :
       Do("retweets", [status_id |-> status_id, parameters |-> parameters],
          net, retweets(client, status_id, parameters, net))

ShowStatus ==
  /\ Ready
  /\ \E status_id \in StatusIds, parameters \in ExtraParameters, net \in Net :
       Do("show_status", [status_id |-> status_id, parameters |-> parameters],
          net, show_status(client, status_id, parameters, net))

DestroyStatus ==
  /\ Ready
  /\ \E status_id \in StatusIds, parameters \in ExtraParameters, net \in Net :
       Do("destroy_status", [status_id |-> status_id, parameters |-> parameters],
          net, destroy_status(client, status_id, parameters, net))

Retweet ==
  /\ Ready
  /\ \E status_id \in StatusIds, parameters \in ExtraParameters, net \in Net :
       Do("retweet", [status_id |-> status_id, parameters |-> parameters],
          net, retweet(client, status_id, parameters, net))

UpdateStatus ==
  /\ Ready
  /\ \E status \in StatusTexts, media \in Media,
        parameters \in ExtraParameters, net \in Net :
       Do("update_status", [status |-> status, media |-> media, parameters |-> parameters],
          net, update_status(client, status, media, parameters, net))

\* The caller takes the result or the exception; nothing of the call is retained.
Return ==
  /\ pc = "done"
  /\ pc' = "idle"
  /\ call' = NoCall
  /\ UNCHANGED <<client, ctor>>

Next ==
  \/ Construct
  \/ Request
  \/ HomeTimeline
  \/ Mentions
  \/ PublicTimeline
  \/ RetweetedByMe
  \/ RetweetedToMe
  \/ RetweetsOfMe
  \/ UserTimeline
  \/ RetweetedToUser
  \/ RetweetedByUser
  \/ RetweetedBy
  \/ Retweets
  \/ ShowStatus
  \/ DestroyStatus
  \/ Retweet
  \/ UpdateStatus
  \/ Return

Spec == Init /\ [][Next]_vars

----------------------------------------------------------------------------
(* Properties *)

Range(f) == {f[i] : i \in DOMAIN f}
Done == pc = "done"
\* The transport was handed a request and answered it with a response.
Answered == Done /\ Len(call.sends) > 0 /\ call.net.kind = "response"
\* The transport was handed a request and failed.
TransportFailed == Done /\ Len(call.sends) > 0 /\ call.net.kind = "RequestException"
RaisedTweepyError(msg) ==
  call.outcome = [kind |-> "raise", type |-> "TweepyError", msg |-> msg]

\* C1: every response whose status code is not 200 makes the call raise
\* TweepyError('API error: ' + parser.parse_error(body)); nothing is returned
\* and parse_content is not invoked.
C1_Non200RaisesApiError ==
  (Answered /\ call.net.status_code # 200) =>
    /\ RaisedTweepyError(<<"API error: ", parse_error(call.before.parser, call.net.content)>>)
    /\ call.parsed = <<"parse_error">>

C1_Witness ==
  /\ Answered
  /\ call.net.status_code = 404
  /\ call.net.content = ErrorBody
  /\ call.outcome.kind = "raise"
  /\ call.outcome.msg = <<"API error: ", "Not found">>

\* C2: a failed send makes the call raise TweepyError('Request error: ' + cause);
\* the RequestException itself does not reach the caller and no parser
\* operation is invoked.
C2_TransportFailureRewrapped ==
  TransportFailed =>
    /\ RaisedTweepyError(<<"Request error: ", call.net.cause>>)
    /\ call.parsed = <<>>

C2_Witness ==
  /\ TransportFailed
  /\ call.net.cause = "Read timed out"
  /\ call.outcome.kind = "raise"
  /\ call.outcome.type = "TweepyError"

\* C3: a constructor call raises exactly when the parser does not support the
\* response format, and then no client is obtained; otherwise the client holds
\* exactly the parser and the format that were passed.
C3_ConstructionChecksFormat ==
  /\ ctor.t = "ctor" =>
       IF ctor.args.response_format \notin ctor.args.parser.formats
       THEN ctor.raised /\ ctor.type = "TweepyError" /\ client = NoClient
       ELSE /\ ~ctor.raised
            /\ client # NoClient
            /\ client.parser = ctor.args.parser
            /\ client.response_format = ctor.args.response_format
  /\ client # NoClient => client.response_format \in client.parser.formats

C3_Witness ==
  /\ ctor.t = "ctor"
  /\ ctor.args.parser.name = "JSONParser"
  /\ ctor.args.response_format = "xml"
  /\ ctor.raised
  /\ client = NoClient

\* scheme://{subdomain}.{host}/{api_version}/{path}.{format} for the client
\* as it was constructed.
TemplateURL(args, subdomain, path) ==
  <<IF args.secure THEN "https" ELSE "http", "://", subdomain, ".", args.host, "/",
    args.api_version, "/">> \o path \o <<".", args.response_format>>

\* A path that does not start with '/' and has no '.' or '..' segment.
PlainPath(path) ==
  /\ path # <<>> => path[1] # "/"
  /\ \A seg \in Range(split(path, "/")) : seg # Dot /\ seg # DotDot

\* A path with no '.' or '..' segment, with or without a leading or a
\* trailing slash.
NoDotSegments(path) ==
  \A seg \in Range(split(path, "/")) : seg # Dot /\ seg # DotDot

\* C4 as stated: for every relative path, with or without a leading or a
\* trailing slash, the URL handed to the transport is the template filled in.
C4_Original ==
  (Done /\ Len(call.sends) > 0 /\ NoDotSegments(call.reqs[1].url)) =>
    call.sends[1].url = TemplateURL(ctor.args, call.reqs[1].subdomain, call.reqs[1].url)

\* C4 amended: the URL handed to the transport is the template filled in
\* whenever the path does not start with '/' and has no '.' or '..' segment.
C4_PlainPathsFollowTemplate ==
  (Done /\ Len(call.sends) > 0 /\ PlainPath(call.reqs[1].url)) =>
    call.sends[1].url = TemplateURL(ctor.args, call.reqs[1].subdomain, call.reqs[1].url)

C4_Witness ==
  /\ Done
  /\ call.op = "request"
  /\ call.args.url = <<"a", "/", "a">>
  /\ call.args.subdomain = "upload"
  /\ ~ctor.args.secure
  /\ Len(call.sends) = 1
  /\ call.sends[1].url =
       <<"http", "://", "upload", ".", ctor.args.host, "/", ctor.args.api_version, "/",
         "a", "/", "a", ".", ctor.args.response_format>>

\* What parse_content makes of the body of the call, for the call's parser.
CallParse == parse_content(call.before.parser, call.net.content)

\* C5 as stated: on status 200 an empty body is returned as it is and no
\* parser operation is invoked; a non-empty body goes through parse_content,
\* whose value is what the call returns.
C5_Original ==
  (Answered /\ call.net.status_code = 200) =>
    IF Len(call.net.content) = 0
    THEN /\ call.outcome = [kind |-> "return", value |-> [t |-> "bytes", of |-> call.net.content]]
         /\ call.parsed = <<>>
    ELSE /\ call.parsed = <<"parse_content">>
         /\ CallParse.ok => call.outcome = [kind |-> "return", value |-> CallParse.value]
         /\ ~CallParse.ok => call.outcome.kind = "raise"

\* C5 amended: on status 200 the body is returned as it is, and no parser
\* operation is invoked, when the body is empty or the parser object is
\* false; a non-empty body with a parser that is true goes through
\* parse_content, whose value is what the call returns.
C5_SuccessParsing ==
  (Answered /\ call.net.status_code = 200) =>
    IF Len(call.net.content) = 0 \/ ~call.before.parser.truthy
    THEN /\ call.outcome = [kind |-> "return", value |-> [t |-> "bytes", of |-> call.net.content]]
         /\ call.parsed = <<>>
    ELSE /\ call.parsed = <<"parse_content">>
         /\ CallParse.ok => call.outcome = [kind |-> "return", value |-> CallParse.value]
         /\ ~CallParse.ok => call.outcome.kind = "raise"

C5_Witness ==
  /\ Answered
  /\ call.net.status_code = 200
  /\ call.net.content = StatusBody
  /\ call.before.parser.truthy
  /\ call.outcome.kind = "return"
  /\ call.outcome.value.t = "parsed"

\* A path to a file, as text: a str or, in Python 2, a unicode.
IsPath(media) == media.t \in {"str", "unicode"}

\* files={'media[]': (path, open(path, 'rb'))}
AttachedFile(media) ==
  PyDict([k \in {"media[]"} |-> PyTuple(media, PyFile(media.s, FileSystem[media.s]))])

\* C6 as stated: update_status with a path (of a file that can be opened) as
\* media makes one request through 'upload' with the file under 'media[]';
\* with no media it makes one request to statuses/update through 'api' with
\* no files; both carry the status text as the parameter 'status'.
C6_UpdateStatusRouting ==
  (Done /\ call.op = "update_status") =>
    /\ (IsPath(call.args.media) /\ call.args.media.s \in DOMAIN FileSystem) =>
         /\ Len(call.reqs) = 1 /\ Len(call.sends) = 1
         /\ call.reqs[1].subdomain = "upload"
         /\ call.sends[1].url[3] = "upload"
         /\ call.sends[1].method = "POST"
         /\ call.sends[1].files = AttachedFile(call.args.media)
         /\ call.sends[1].params["status"] = PyStr(call.args.status)
    /\ call.args.media.t = "None" =>
         /\ Len(call.reqs) = 1 /\ Len(call.sends) = 1
         /\ call.reqs[1].subdomain = "api"
         /\ call.reqs[1].url = <<"statuses", "/", "update">>
         /\ call.sends[1].url[3] = "api"
         /\ call.sends[1].method = "POST"
         /\ call.sends[1].files = PyNone
         /\ call.sends[1].params["status"] = PyStr(call.args.status)

\* The errors of the library: TweepyError, and the parser's ParseError.
LibraryErrors == {"TweepyError", "ParseError"}

\* C7 as stated: every call of request(), its optional arguments given or left
\* at their defaults, returns a result or raises the library's Error, and
\* every failure raises it.
C7_ReturnOrLibraryError ==
  (Done /\ call.op = "request") =>
    /\ \/ call.outcome.kind = "return"
       \/ call.outcome.kind = "raise" /\ call.outcome.type \in LibraryErrors
    /\ (TransportFailed \/ (Answered /\ call.net.status_code # 200)) =>
         call.outcome.kind = "raise"

\* C8: a call sends at most one request; a transport failure or a non-200
\* response ends it after that one send; a failed call leaves the client as
\* it was.
C8_SingleAttempt ==
  Done =>
    /\ Len(call.sends) <= 1
    /\ (call.net.kind = "RequestException" \/ call.net.status_code # 200) =>
         (Len(call.sends) = 1 => call.outcome.kind = "raise")
    /\ call.outcome.kind = "raise" => client = call.before

C8_Witness ==
  /\ Done
  /\ call.op = "show_status"
  /\ call.net.kind = "RequestException"
  /\ Len(call.sends) = 1
  /\ call.outcome.kind = "raise"
  /\ client = call.before

Endpoints ==
  {"home_timeline", "mentions", "public_timeline", "retweeted_by_me", "retweeted_to_me",
   "retweets_of_me", "user_timeline", "retweeted_to_user", "retweeted_by_user",
   "retweeted_by", "retweets", "show_status", "destroy_status", "retweet", "update_status"}

EndpointMethod(op) ==
  IF op \in {"destroy_status", "retweet", "update_status"} THEN "POST" ELSE "GET"

\* The path each endpoint documents, the status id in its place.
EndpointPath(op, args) ==
  CASE op = "retweeted_by" ->
         <<"statuses", "/">> \o str(args.status_id)
           \o (IF args.only_ids THEN <<"/", "retweeted_by", "/", "ids">>
               ELSE <<"/", "retweeted_by">>)
    [] op = "retweets" -> <<"statuses", "/", "retweets", "/">> \o str(args.status_id)
    [] op = "show_status" -> <<"statuses", "/", "show", "/">> \o str(args.status_id)
    [] op = "destroy_status" -> <<"statuses", "/", "destroy", "/">> \o str(args.status_id)
    [] op = "retweet" -> <<"statuses", "/", "retweet", "/">> \o str(args.status_id)
    [] op = "update_status" ->
         IF args.media.t \in {"str", "tuple"}
         THEN <<"statuses", "/", "update_with_media">>
         ELSE <<"statuses", "/", "update">>
    [] OTHER -> <<"statuses", "/", op>>

\* The mapping each endpoint builds from its caller's arguments.
EndpointParameters(op, args) ==
  CASE op = "user_timeline" ->
         update(args.parameters, [screen_name |-> args.screen_name, user_id |-> args.user_id])
    [] op \in {"retweeted_to_user", "retweeted_by_user"} ->
         update(args.parameters, [id |-> args.id, screen_name |-> args.screen_name])
    [] op = "update_status" -> update(args.parameters, [status |-> PyStr(args.status)])
    [] OTHER -> args.parameters

\* Arguments an endpoint can work with: a media path names a file that opens.
ValidArguments(op, args) ==
  op = "update_status" =>
    (args.media.t = "str" => args.media.s \in DOMAIN FileSystem)

\* C9 as stated: every endpoint method, home_timeline like the others, makes
\* exactly one call of request() with its HTTP method, its path and the
\* parameter mapping built from the caller's arguments.
C9_EveryEndpointDelegates ==
  (Done /\ call.op \in Endpoints /\ ValidArguments(call.op, call.args)) =>
    /\ Len(call.reqs) = 1
    /\ call.reqs[1].method = EndpointMethod(call.op)
    /\ call.reqs[1].url = EndpointPath(call.op, call.args)
    /\ call.reqs[1].parameters = PyDict(EndpointParameters(call.op, call.args))

\* One path template for each endpoint but update_status, the status id in
\* its place.
FixedPath(op, args) ==
  CASE op = "retweeted_by" -> <<"statuses", "/">> \o str(args.status_id) \o <<"/", "retweeted_by">>
    [] op = "retweets" -> <<"statuses", "/", "retweets", "/">> \o str(args.status_id)
    [] op = "show_status" -> <<"statuses", "/", "show", "/">> \o str(args.status_id)
    [] op = "destroy_status" -> <<"statuses", "/", "destroy", "/">> \o str(args.status_id)
    [] op = "retweet" -> <<"statuses", "/", "retweet", "/">> \o str(args.status_id)
    [] OTHER -> <<"statuses", "/", op>>

\* C10 as stated: for every endpoint but update_status the path (a fixed
\* template with the id in it), the HTTP method and the subdomain handed to
\* request() do not depend on the arguments.
C10_Original ==
  (Done /\ call.op \in Endpoints \ {"update_status"} /\ Len(call.reqs) = 1) =>
    /\ call.reqs[1].url = FixedPath(call.op, call.args)
    /\ call.reqs[1].method = EndpointMethod(call.op)
    /\ call.reqs[1].subdomain = "api"

\* C10 amended: update_status and retweeted_by are the endpoints with
\* conditional behaviour.  retweeted_by takes 'statuses/{id}/retweeted_by/ids'
\* when only_ids is true and 'statuses/{id}/retweeted_by' otherwise; for every
\* other endpoint but update_status the path is one fixed template with the id
\* in it; the HTTP method and the subdomain of all of these are fixed.
C10_ConditionalEndpoints ==
  (Done /\ call.op \in Endpoints \ {"update_status"} /\ Len(call.reqs) = 1) =>
    /\ call.reqs[1].url =
         IF call.op = "retweeted_by" /\ call.args.only_ids
         THEN <<"statuses", "/">> \o str(call.args.status_id)
                \o <<"/", "retweeted_by", "/", "ids">>
         ELSE FixedPath(call.op, call.args)
    /\ call.reqs[1].method = EndpointMethod(call.op)
    /\ call.reqs[1].subdomain = "api"

C10_Witness ==
  /\ Done
  /\ call.op = "retweeted_by"
  /\ call.args.only_ids
  /\ call.args.status_id = 2
  /\ Len(call.reqs) = 1
  /\ call.reqs[1].url = <<"statuses", "/", "2", "/", "retweeted_by", "/", "ids">>

====
